---- MODULE Spec2Model ----
(***************************************************************************)
(* update_deployment_toml.py: main() reads deployment.toml, sets the       *)
(* fields named by the supplied command-line flags under                   *)
(* deployment[chain_key] and writes the document back.                     *)
(*                                                                         *)
(* Strings that the program inspects character by character (flag names,   *)
(* flag values) are sequences of one-character strings.  Chain keys and    *)
(* top-level section names are only compared, so they are plain strings.   *)
(***************************************************************************)
EXTENDS Integers, Sequences, FiniteSets, TLC

VARIABLES
  disk,       \* deployment.toml in the working directory
  pc,         \* position of main()
  argv,       \* the command line the process is started with
  chain_key,  \* args.chain_key
  args,       \* the supplied flags: logical name -> raw value (absent = None)
  doc,        \* the in-memory tomlkit document
  updates,    \* the `updates` dict, in insertion order
  out,        \* lines printed to sys.stdout
  err,        \* lines printed to sys.stderr
  exit_code,  \* process exit status, Running until the process ends
  io,         \* file-system calls made by this run, in order
  fault,      \* the environment error raised in this run, "none" if none
  disk0,      \* the file as it was when this run started
  runs,       \* number of invocations started so far
  prev        \* the previous invocation: its status and resulting file

vars == << disk, pc, argv, chain_key, args, doc, updates, out, err,
           exit_code, io, fault, disk0, runs, prev >>

----------------------------------------------------------------------------
(* Bounds of the model *)

\* Only the first NumFlags entries of field_mappings are ever supplied.
NumFlags == 2

\* Number of consecutive invocations on the same working directory.
MaxRuns == 2

----------------------------------------------------------------------------
(* Program constants *)

\* len(value) > 50
TruncLimit == 50

\* value[:10] and value[-10:]
EdgeLen == 10

\* exit_code while the process has not ended
Running == 0 - 1

\* The keys of field_mappings, in source order.
field_mappings ==
  << <<"a","d","m","i","n">>,
     <<"z","k","c","_","a","d","m","i","n">>,
     <<"z","k","c","_","a","d","m","i","n","_","2">>,
     <<"v","e","z","k","c","_","a","d","m","i","n">>,
     <<"v","e","z","k","c","_","a","d","m","i","n","_","2">>,
     <<"s","t","a","k","i","n","g","_","r","e","w","a","r","d","s","_","a","d","m","i","n">>,
     <<"s","t","a","k","i","n","g","_","r","e","w","a","r","d","s","_","a","d","m","i","n","_","2">>,
     <<"s","u","p","p","l","y","_","c","a","l","c","u","l","a","t","o","r","_","a","d","m","i","n","_","2">>,
     <<"z","k","c">>,
     <<"z","k","c","_","i","m","p","l">>,
     <<"z","k","c","_","i","m","p","l","_","p","r","e","v">>,
     <<"z","k","c","_","d","e","p","l","o","y","e","r">>,
     <<"v","e","z","k","c">>,
     <<"v","e","z","k","c","_","i","m","p","l">>,
     <<"v","e","z","k","c","_","i","m","p","l","_","p","r","e","v">>,
     <<"v","e","z","k","c","_","d","e","p","l","o","y","e","r">>,
     <<"s","t","a","k","i","n","g","_","r","e","w","a","r","d","s">>,
     <<"s","t","a","k","i","n","g","_","r","e","w","a","r","d","s","_","i","m","p","l">>,
     <<"s","t","a","k","i","n","g","_","r","e","w","a","r","d","s","_","i","m","p","l","_","p","r","e","v">>,
     <<"s","t","a","k","i","n","g","_","r","e","w","a","r","d","s","_","d","e","p","l","o","y","e","r">>,
     <<"p","o","v","w","_","m","i","n","t","e","r">>,
     <<"s","t","a","k","i","n","g","_","m","i","n","t","e","r">>,
     <<"s","u","p","p","l","y","_","c","a","l","c","u","l","a","t","o","r">>,
     <<"s","u","p","p","l","y","_","c","a","l","c","u","l","a","t","o","r","_","i","m","p","l">>,
     <<"s","u","p","p","l","y","_","c","a","l","c","u","l","a","t","o","r","_","a","d","m","i","n">>,
     <<"z","k","c","_","c","o","m","m","i","t">>,
     <<"v","e","z","k","c","_","c","o","m","m","i","t">>,
     <<"s","t","a","k","i","n","g","_","r","e","w","a","r","d","s","_","c","o","m","m","i","t">>,
     <<"s","u","p","p","l","y","_","c","a","l","c","u","l","a","t","o","r","_","c","o","m","m","i","t">>,
     <<"r","p","c","_","u","r","l">>,
     <<"e","t","h","e","r","s","c","a","n","_","a","p","i","_","k","e","y">> >>

----------------------------------------------------------------------------
(* Strings *)

\* The characters str.strip() removes (those that occur in the model).
Whitespace == {" ", "\t", "\n"}

RECURSIVE LStrip(_)
LStrip(s) ==
  IF s = <<>> \/ Head(s) \notin Whitespace THEN s ELSE LStrip(Tail(s))

RECURSIVE RStrip(_)
RStrip(s) ==
  IF s = <<>> \/ s[Len(s)] \notin Whitespace THEN s
  ELSE RStrip(SubSeq(s, 1, Len(s) - 1))

\* Variant: value.lstrip()
StripLeft(value) == LStrip(value)

\* value.strip()
Strip(value) == RStrip(LStrip(value))

\* field.replace('_', '-')
ToTomlField(field) ==
  [j \in 1..Len(field) |-> IF field[j] = "_" THEN "-" ELSE field[j]]

\* value[:10]
FirstChars(value) == SubSeq(value, 1, EdgeLen)

\* value[-10:]
LastChars(value) == SubSeq(value, Len(value) - EdgeLen + 1, Len(value))

\* Variant: len(value) >= 50
DisplayValueAtLimit(value) ==
  IF Len(value) >= TruncLimit
  THEN FirstChars(value) \o <<".", ".", ".">> \o LastChars(value)
  ELSE value

\* display_value of the report loop
DisplayValue(value) ==
  IF Len(value) > TruncLimit
  THEN FirstChars(value) \o <<".", ".", ".">> \o LastChars(value)
  ELSE value

----------------------------------------------------------------------------
(* Documents *)

\* A function extended or overwritten at one key: t[k] = v
Put(t, k, v) == [x \in DOMAIN t \cup {k} |-> IF x = k THEN v ELSE t[x]]

EmptyTable == << >>

\* An entry of a section is a table of fields or a scalar.
Table(items) == [kind |-> "table", items |-> items]
Scalar == [kind |-> "scalar", items |-> EmptyTable]

\* tomlkit.table()
NewSection == EmptyTable

\* The document of an empty file.
EmptyDoc == << >>

\* chain_key in doc['deployment']
HasChain(d, ck) == ck \in DOMAIN d["deployment"]

\* Variant: list(doc.keys())
AvailableChainsTopLevel(d) == DOMAIN d

\* list(doc['deployment'].keys())
AvailableChains(d) == DOMAIN d["deployment"]

\* doc['deployment'][chain_key][toml_field] = value raises TypeError unless
\* the entry is a table.
CanAssign(d, ck) == d["deployment"][ck].kind = "table"

\* Variant: doc['deployment'][chain_key] = {toml_field: value}
SetFieldClobber(d, ck, toml_field, value) ==
  [d EXCEPT !["deployment"][ck].items = [x \in {toml_field} |-> value]]

\* Variant: doc['deployment'][chain_key][toml_field] += value
SetFieldAppend(d, ck, toml_field, value) ==
  [d EXCEPT !["deployment"][ck].items =
     Put(@, toml_field,
         IF toml_field \in DOMAIN @ THEN @[toml_field] \o value ELSE value)]

\* doc['deployment'][chain_key][toml_field] = value
SetField(d, ck, toml_field, value) ==
  [d EXCEPT !["deployment"][ck].items = Put(@, toml_field, value)]

\* updates[toml_field] = value (a dict keeps the position of an existing key)
UpdatesPut(u, toml_field, value) ==
  IF \E j \in 1..Len(u) : u[j].key = toml_field
  THEN [j \in 1..Len(u) |->
          IF u[j].key = toml_field THEN [key |-> toml_field, value |-> value]
          ELSE u[j]]
  ELSE Append(u, [key |-> toml_field, value |-> value])

\* Variant: if value
SuppliedTruthy(a, field) == field \in DOMAIN a /\ a[field] # << >>

\* if value is not None
Supplied(a, field) == field \in DOMAIN a

\* The loop over field_mappings.items(), from entry i on.  raised: the
\* assignment raised, which leaves the loop at once.
RECURSIVE ApplyFrom(_, _, _, _, _)
ApplyFrom(i, d, u, ck, a) ==
  IF i > Len(field_mappings) THEN [doc |-> d, updates |-> u, raised |-> FALSE]
  ELSE LET field == field_mappings[i] IN
    IF ~Supplied(a, field) THEN ApplyFrom(i + 1, d, u, ck, a)
    ELSE LET toml_field == ToTomlField(field)
             value == Strip(a[field])
         IN IF ~CanAssign(d, ck)
            THEN [doc |-> d, updates |-> u, raised |-> TRUE]
            ELSE ApplyFrom(i + 1, SetField(d, ck, toml_field, value),
                           UpdatesPut(u, toml_field, value), ck, a)

----------------------------------------------------------------------------
(* Console output *)

Msg(tag, chain, key, text, keys) ==
  [tag |-> tag, chain |-> chain, key |-> key, text |-> text, keys |-> keys]

ErrEmptyChainKey == Msg("chain_key_empty", "", <<>>, <<>>, {})
ErrFileNotFound == Msg("file_not_found", "", <<>>, <<>>, {})
ErrChainNotFound(ck) == Msg("chain_not_found", ck, <<>>, <<>>, {})
ErrAvailable(keys) == Msg("available_chains", "", <<>>, <<>>, keys)
ErrParsing == Msg("error_parsing", "", <<>>, <<>>, {})
ErrMissingKey == Msg("missing_key", "", <<>>, <<>>, {})
ErrUnexpected == Msg("unexpected_error", "", <<>>, <<>>, {})
ErrUsage == Msg("usage", "", <<>>, <<>>, {})
OutHelp == Msg("help", "", <<>>, <<>>, {})
OutHeader(ck) == Msg("updated", ck, <<>>, <<>>, {})
OutField(key, text) == Msg("field", "", key, text, {})
OutNoUpdates == Msg("no_updates", "", <<>>, <<>>, {})

\* Variant: the header is printed whether or not updates is empty
ReportLinesAlwaysHeader(u, ck) ==
  <<OutHeader(ck)>> \o
  [j \in 1..Len(u) |-> OutField(u[j].key, DisplayValue(u[j].value))]

\* The report printed after the write.
ReportLines(u, ck) ==
  IF u # <<>>
  THEN <<OutHeader(ck)>> \o
       [j \in 1..Len(u) |-> OutField(u[j].key, DisplayValue(u[j].value))]
  ELSE <<OutNoUpdates>>

----------------------------------------------------------------------------
(* Inputs *)

Digits == <<"1", "2", "3", "4", "5", "6", "7", "8", "9", "0">>

\* A string of n non-blank characters whose ends differ.
Body(n) == [j \in 1..n |-> Digits[((j - 1) % 10) + 1]]

ValEmpty == << >>
ValBlank == <<" ", "\t">>
ValShort == <<" ", "a", " ", "b", "\n">>
ValAtLimit == <<" ">> \o Body(TruncLimit) \o <<" ">>
ValOver == Body(TruncLimit + 1)
ValLong == <<"\t">> \o Body(TruncLimit + EdgeLen) \o <<"\n">>

\* Raw values a flag is given on the command line.
CliValues == {ValEmpty, ValBlank, ValShort, ValAtLimit, ValOver, ValLong}

\* The flags that are supplied in the model.
Flags == {field_mappings[j] : j \in 1..NumFlags}

\* The argparse namespace without --chain-key: supplied flag -> raw value.
ArgSets == UNION {[S -> CliValues] : S \in SUBSET Flags}

ChainKeys == {"", "anvil", "base", "legacy", "mainnet"}

\* The command lines: accepted by argparse (kind "ok"), rejected by it (an
\* unknown flag, a flag without its value), or asking for the help.
CommandLines ==
  [kind : {"ok"}, chain_key : ChainKeys, args : ArgSets]
  \cup [kind : {"usage", "help"}, chain_key : {""}, args : {<< >>}]

Old == <<"o", "l", "d">>
Keep == <<"k", "e", "e", "p">>

AnvilItems ==
  [k \in {<<"a","d","m","i","n">>, <<"z","k","c","_","a","d","m","i","n">>,
          <<"r","p","c","-","u","r","l">>} |->
     IF k = <<"a","d","m","i","n">> THEN Old ELSE Keep]

BaseItems == [k \in {<<"a","d","m","i","n">>} |-> Keep]

\* [deployment.anvil], [deployment.base], deployment.legacy = "...", [profile.default]
FullDoc ==
  [s \in {"deployment", "profile"} |->
     IF s = "deployment"
     THEN [c \in {"anvil", "base", "legacy"} |->
             IF c = "anvil" THEN Table(AnvilItems)
             ELSE IF c = "base" THEN Table(BaseItems) ELSE Scalar]
     ELSE [c \in {"default"} |-> Table(BaseItems)]]

\* A document without a deployment section.
ProfileDoc == [s \in {"profile"} |-> [c \in {"default"} |-> Table(BaseItems)]]

\* A document whose deployment section has no chain.
NoChainDoc == [s \in {"deployment"} |-> EmptyTable]

Absent == [kind |-> "absent", doc |-> EmptyDoc]
Malformed == [kind |-> "malformed", doc |-> EmptyDoc]
Partial == [kind |-> "partial", doc |-> EmptyDoc]
Toml(d) == [kind |-> "toml", doc |-> d]

\* What deployment.toml may be before the first invocation.
InitFiles ==
  {Absent, Malformed, Toml(EmptyDoc), Toml(ProfileDoc), Toml(NoChainDoc),
   Toml(FullDoc)}

NoPrev == [valid |-> FALSE, exit_code |-> Running, disk |-> Absent]

----------------------------------------------------------------------------
(* The process *)

Init ==
  /\ disk \in InitFiles
  /\ pc = "start"
  /\ argv \in CommandLines
  /\ chain_key = ""
  /\ args = << >>
  /\ doc = EmptyDoc
  /\ updates = << >>
  /\ out = << >>
  /\ err = << >>
  /\ exit_code = Running
  /\ io = << >>
  /\ fault = "none"
  /\ disk0 = disk
  /\ runs = 1
  /\ prev = NoPrev

\* sys.exit(status), after printing line to stderr
Fail(line, status) ==
  /\ err' = err \o line
  /\ exit_code' = status
  /\ pc' = "exited"

\* The except clauses: TOMLKitError, KeyError, Exception.
Except(kind) ==
  Fail(<<IF kind = "TOMLKitError" THEN ErrParsing
         ELSE IF kind = "KeyError" THEN ErrMissingKey
         ELSE ErrUnexpected>>, 1)

\* args = parser.parse_args(), the command line being well formed
ParseArgs ==
  /\ pc = "start"
  /\ argv.kind = "ok"
  /\ chain_key' = argv.chain_key
  /\ args' = argv.args
  /\ pc' = "validate"
  /\ UNCHANGED << disk, argv, doc, updates, out, err, exit_code, io, fault, disk0,
                  runs, prev >>

\* parser.parse_args() on an unknown flag or a flag without its value:
\* argparse prints the usage to stderr and exits with status 2
ParseArgsError ==
  /\ pc = "start"
  /\ argv.kind = "usage"
  /\ Fail(<<ErrUsage>>, 2)
  /\ UNCHANGED << disk, argv, chain_key, args, doc, updates, out, io, fault, disk0,
                  runs, prev >>

\* parser.parse_args() on -h / --help: argparse prints the help and exits 0
ParseArgsHelp ==
  /\ pc = "start"
  /\ argv.kind = "help"
  /\ out' = Append(out, OutHelp)
  /\ exit_code' = 0
  /\ pc' = "exited"
  /\ UNCHANGED << disk, argv, chain_key, args, doc, updates, err, io, fault, disk0,
                  runs, prev >>

\* Variant: if chain_key is None
ValidateChainKeyNone ==
  /\ pc = "validate"
  /\ pc' = "find"
  /\ UNCHANGED << disk, argv, chain_key, args, doc, updates, out, err,
                  exit_code, io, fault, disk0, runs, prev >>

\* if not chain_key
ValidateChainKey ==
  /\ pc = "validate"
  /\ IF chain_key = ""
     THEN Fail(<<ErrEmptyChainKey>>, 1)
     ELSE pc' = "find" /\ UNCHANGED << err, exit_code >>
  /\ UNCHANGED << disk, argv, chain_key, args, doc, updates, out, io,
                  fault, disk0, runs, prev >>

\* Variant: if not toml_path.exists(): toml_path.touch()
FindFileCreate ==
  /\ pc = "find"
  /\ io' = Append(io, "exists")
  /\ disk' = IF disk.kind = "absent" THEN Toml(EmptyDoc) ELSE disk
  /\ pc' = "load"
  /\ UNCHANGED << argv, chain_key, args, doc, updates, out, err,
                  exit_code, fault, disk0, runs, prev >>

\* if not toml_path.exists()
FindFile ==
  /\ pc = "find"
  /\ io' = Append(io, "exists")
  /\ IF disk.kind = "absent"
     THEN Fail(<<ErrFileNotFound>>, 1)
     ELSE pc' = "load" /\ UNCHANGED << err, exit_code >>
  /\ UNCHANGED << disk, argv, chain_key, args, doc, updates, out, fault,
                  disk0, runs, prev >>

\* with open(toml_path, 'r') as f: doc = tomlkit.load(f)
Load ==
  /\ pc = "load"
  /\ io' = Append(io, "open_r")
  /\ IF disk.kind = "toml"
     THEN doc' = disk.doc /\ pc' = "ensure" /\ UNCHANGED << err, exit_code >>
     ELSE Except("TOMLKitError") /\ UNCHANGED doc
  /\ UNCHANGED << disk, argv, chain_key, args, updates, out, fault,
                  disk0, runs, prev >>

\* open(toml_path, 'r') raises OSError (the file is not readable)
LoadError ==
  /\ pc = "load"
  /\ io' = Append(io, "open_r")
  /\ fault' = "read"
  /\ Except("OSError")
  /\ UNCHANGED << disk, argv, chain_key, args, doc, updates, out, disk0,
                  runs, prev >>

\* if 'deployment' not in doc: doc['deployment'] = tomlkit.table()
EnsureDeployment ==
  /\ pc = "ensure"
  /\ doc' = IF "deployment" \notin DOMAIN doc
            THEN Put(doc, "deployment", NewSection) ELSE doc
  /\ pc' = "lookup"
  /\ UNCHANGED << disk, argv, chain_key, args, updates, out, err,
                  exit_code, io, fault, disk0, runs, prev >>

\* if chain_key not in doc['deployment']
LookupChain ==
  /\ pc = "lookup"
  /\ IF ~HasChain(doc, chain_key)
     THEN Fail(<<ErrChainNotFound(chain_key),
                 ErrAvailable(AvailableChains(doc))>>, 1)
     ELSE pc' = "apply" /\ UNCHANGED << err, exit_code >>
  /\ UNCHANGED << disk, argv, chain_key, args, doc, updates, out, io,
                  fault, disk0, runs, prev >>

\* updates = {}; for field, value in field_mappings.items(): ...
ApplyFields ==
  /\ pc = "apply"
  /\ LET r == ApplyFrom(1, doc, << >>, chain_key, args) IN
       /\ doc' = r.doc
       /\ updates' = r.updates
       /\ IF r.raised
          THEN Except("TypeError")
          ELSE pc' = "open_w" /\ UNCHANGED << err, exit_code >>
  /\ UNCHANGED << disk, argv, chain_key, args, out, io, fault, disk0,
                  runs, prev >>

\* open(toml_path, 'w'): the file is truncated
OpenWrite ==
  /\ pc = "open_w"
  /\ io' = Append(io, "open_w")
  /\ disk' = Toml(EmptyDoc)
  /\ pc' = "dump"
  /\ UNCHANGED << argv, chain_key, args, doc, updates, out, err,
                  exit_code, fault, disk0, runs, prev >>

\* open(toml_path, 'w') raises OSError (the file is not writable)
OpenWriteError ==
  /\ pc = "open_w"
  /\ io' = Append(io, "open_w")
  /\ fault' = "open_w"
  /\ Except("OSError")
  /\ UNCHANGED << disk, argv, chain_key, args, doc, updates, out, disk0,
                  runs, prev >>

\* tomlkit.dump(doc, f), and the file is closed
Dump ==
  /\ pc = "dump"
  /\ io' = Append(io, "write")
  /\ disk' = Toml(doc)
  /\ pc' = "report"
  /\ UNCHANGED << argv, chain_key, args, doc, updates, out, err,
                  exit_code, fault, disk0, runs, prev >>

\* f.write raises OSError (the disk is full): nothing or a part of the text
\* has reached the truncated file
DumpError ==
  /\ pc = "dump"
  /\ io' = Append(io, "write")
  /\ disk' \in {Toml(EmptyDoc), Partial}
  /\ fault' = "write"
  /\ Except("OSError")
  /\ UNCHANGED << argv, chain_key, args, doc, updates, out, disk0,
                  runs, prev >>

\* if updates: ... else: print("No updates provided, ...")
Report ==
  /\ pc = "report"
  /\ out' = out \o ReportLines(updates, chain_key)
  /\ exit_code' = 0
  /\ pc' = "exited"
  /\ UNCHANGED << disk, argv, chain_key, args, doc, updates, err, io,
                  fault, disk0, runs, prev >>

\* the first print to stdout raises (a closed pipe, an encoding without the
\* glyph): the error is caught by `except Exception`
ReportError ==
  /\ pc = "report"
  /\ fault' = "print"
  /\ \E e \in {"OSError", "UnicodeEncodeError"} : Except(e)
  /\ UNCHANGED << disk, argv, chain_key, args, doc, updates, out, io,
                  disk0, runs, prev >>

\* The script is invoked again with the same command line in the same
\* working directory.
Rerun ==
  /\ pc = "exited"
  /\ runs < MaxRuns
  /\ prev' = [valid |-> TRUE, exit_code |-> exit_code, disk |-> disk]
  /\ runs' = runs + 1
  /\ disk0' = disk
  /\ pc' = "start"
  /\ chain_key' = ""
  /\ args' = << >>
  /\ doc' = EmptyDoc
  /\ updates' = << >>
  /\ out' = << >>
  /\ err' = << >>
  /\ exit_code' = Running
  /\ io' = << >>
  /\ fault' = "none"
  /\ UNCHANGED << disk, argv >>

Next ==
  \/ ParseArgs
  \/ ParseArgsError
  \/ ParseArgsHelp
  \/ ValidateChainKey
  \/ FindFile
  \/ Load
  \/ LoadError
  \/ EnsureDeployment
  \/ LookupChain
  \/ ApplyFields
  \/ OpenWrite
  \/ OpenWriteError
  \/ Dump
  \/ DumpError
  \/ Report
  \/ ReportError
  \/ Rerun

Spec == Init /\ [][Next]_vars

----------------------------------------------------------------------------
(* Vocabulary of the properties *)

Finished == pc = "exited"

\* main() got its arguments: the command line was accepted by argparse.
Accepted == argv.kind = "ok" /\ pc # "start"

Success == Finished /\ Accepted /\ exit_code = 0

\* The chain keys of a file's deployment section.
Chains(f) ==
  IF f.kind = "toml" /\ "deployment" \in DOMAIN f.doc
  THEN DOMAIN f.doc["deployment"] ELSE {}

\* The fields of deployment[ck] in a file.
Fields(f, ck) == f.doc["deployment"][ck].items

ChainExisted == chain_key \in Chains(disk0)

\* The on-disk name of a flag: every underscore replaced by a hyphen.
RECURSIVE HyphenName(_)
HyphenName(f) ==
  IF f = <<>> THEN <<>>
  ELSE <<IF Head(f) = "_" THEN "-" ELSE Head(f)>> \o HyphenName(Tail(f))

Range(s) == {s[j] : j \in 1..Len(s)}

Blank(c) == c \in {" ", "\t", "\n"}

\* t is v without its leading and trailing whitespace.
IsTrimOf(t, v) ==
  /\ t = <<>> \/ (~Blank(t[1]) /\ ~Blank(t[Len(t)]))
  /\ \E a \in 0..Len(v) :
       /\ a + Len(t) <= Len(v)
       /\ SubSeq(v, a + 1, a + Len(t)) = t
       /\ \A k \in 1..Len(v) : (k <= a \/ k > a + Len(t)) => Blank(v[k])

\* d is the first 10 characters of t, '...', and the last 10 characters of t.
IsAbbrevOf(d, t) ==
  /\ Len(d) = 2 * EdgeLen + 3
  /\ \A k \in 1..EdgeLen : d[k] = t[k]
  /\ \A k \in 1..3 : d[EdgeLen + k] = "."
  /\ \A k \in 1..EdgeLen : d[EdgeLen + 3 + k] = t[Len(t) - EdgeLen + k]

\* The names of the fields the supplied flags stand for.
Named == {HyphenName(f) : f \in DOMAIN args}

AllBlank(v) == \A k \in 1..Len(v) : Blank(v[k])

----------------------------------------------------------------------------
(* C1: a successful run changes only the fields of deployment[chain_key]   *)
(* that the supplied flags name (hyphenated); every other field of that    *)
(* chain, every other chain and every other top-level section has the same *)
(* value on disk after the run as before it, and nothing else is added or  *)
(* removed.                                                                *)
C1_OnlySuppliedFieldsChange ==
  Success =>
    /\ disk.kind = "toml" /\ disk0.kind = "toml"
    /\ DOMAIN disk.doc = DOMAIN disk0.doc
    /\ \A s \in DOMAIN disk0.doc \ {"deployment"} : disk.doc[s] = disk0.doc[s]
    /\ Chains(disk) = Chains(disk0)
    /\ \A c \in Chains(disk0) \ {chain_key} :
         disk.doc["deployment"][c] = disk0.doc["deployment"][c]
    /\ disk.doc["deployment"][chain_key].kind =
         disk0.doc["deployment"][chain_key].kind
    /\ DOMAIN Fields(disk, chain_key) = DOMAIN Fields(disk0, chain_key) \cup Named
    /\ \A f \in DOMAIN Fields(disk0, chain_key) \ Named :
         Fields(disk, chain_key)[f] = Fields(disk0, chain_key)[f]

\* A run that supplied a flag succeeded on a chain with other fields, beside
\* another chain and another section.
C1_Witness ==
  /\ Success
  /\ args # << >>
  /\ DOMAIN Fields(disk0, chain_key) \ Named # {}
  /\ Chains(disk0) \ {chain_key} # {}
  /\ DOMAIN disk0.doc \ {"deployment"} # {}
  /\ disk # disk0

(* C2: a run that ends with a non-zero exit leaves the file as it was, and *)
(* the file a run leaves is either the original document or the document   *)
(* with all supplied fields applied.                                       *)
C2_NoPartialMutationPersisted ==
  Finished =>
    /\ exit_code # 0 => disk = disk0
    /\ \/ disk = disk0
       \/ /\ disk.kind = "toml" /\ ChainExisted
          /\ \A f \in DOMAIN args :
               /\ HyphenName(f) \in DOMAIN Fields(disk, chain_key)
               /\ IsTrimOf(Fields(disk, chain_key)[HyphenName(f)], args[f])

(* C3: a chain key without an entry under deployment ends the run with     *)
(* status 1, the error and the available chain keys on stderr, and no      *)
(* write; a missing deployment section is created in memory only, the      *)
(* available chain keys being reported as empty.                           *)
C3_ChainKeyNotFound ==
  (/\ Finished /\ Accepted /\ fault = "none"
   /\ chain_key # "" /\ disk0.kind = "toml" /\ ~ChainExisted)
  =>
    /\ exit_code = 1
    /\ err = <<ErrChainNotFound(chain_key), ErrAvailable(Chains(disk0))>>
    /\ out = << >>
    /\ io = <<"exists", "open_r">>
    /\ disk = disk0
    /\ "deployment" \in DOMAIN doc
    /\ "deployment" \notin DOMAIN disk0.doc =>
         /\ doc["deployment"] = << >>
         /\ "deployment" \notin DOMAIN disk.doc
         /\ err[2].keys = {}

\* The lookup failed on a document without a deployment section.
C3_Witness ==
  /\ Finished /\ Accepted /\ exit_code = 1
  /\ disk0.kind = "toml" /\ "deployment" \notin DOMAIN disk0.doc
  /\ Len(err) = 2 /\ err[1].tag = "chain_not_found"
  /\ "deployment" \in DOMAIN doc

(* C4: when deployment.toml does not exist the run exits non-zero with an  *)
(* error on stderr, and the file does not exist at any point of the run,   *)
(* whatever flags were supplied.                                           *)
C4_MissingFileNotCreated ==
  disk0.kind = "absent" =>
    /\ disk.kind = "absent"
    /\ (Finished /\ Accepted) => (exit_code # 0 /\ err # << >> /\ out = << >>)
    /\ (Finished /\ Accepted /\ chain_key # "") =>
         (exit_code = 1 /\ err = <<ErrFileNotFound>> /\ io = <<"exists">>)

\* A run with flags ended on the missing file.
C4_Witness ==
  /\ Finished /\ Accepted /\ disk0.kind = "absent"
  /\ args # << >> /\ chain_key # ""
  /\ exit_code = 1

(* C5: after a successful run, for each supplied flag the field named by   *)
(* the flag with underscores replaced by hyphens exists under              *)
(* deployment[chain_key] and holds the flag's value without its leading    *)
(* and trailing whitespace, whether the field existed before or not.       *)
C5_TrimmedValuePersisted ==
  Success =>
    \A f \in DOMAIN args :
      /\ HyphenName(f) \in DOMAIN Fields(disk, chain_key)
      /\ IsTrimOf(Fields(disk, chain_key)[HyphenName(f)], args[f])

\* One run overwrote a field with a padded value and created a field whose
\* name has a hyphen.
C5_Witness ==
  /\ Success
  /\ \E f \in DOMAIN args :
       /\ HyphenName(f) \in DOMAIN Fields(disk0, chain_key)
       /\ Fields(disk0, chain_key)[HyphenName(f)] # Fields(disk, chain_key)[HyphenName(f)]
       /\ Fields(disk, chain_key)[HyphenName(f)] # args[f]
  /\ \E f \in DOMAIN args :
       /\ HyphenName(f) # f
       /\ HyphenName(f) \notin DOMAIN Fields(disk0, chain_key)
       /\ Fields(disk, chain_key)[HyphenName(f)] # <<>>

(* C6: a successful run that repeats the command line (chain key, flags    *)
(* and values) of the successful run before it leaves the file as that run *)
(* left it.                                                                *)
C6_Idempotent ==
  (/\ Success
   /\ prev.valid /\ prev.exit_code = 0)
  => disk = prev.disk

\* The second of two equal runs that changed the file the first time.
C6_Witness ==
  /\ Success
  /\ prev.valid /\ prev.exit_code = 0
  /\ Cardinality(DOMAIN args) >= 2
  /\ io = <<"exists", "open_r", "open_w", "write">>
  /\ disk # Toml(FullDoc)

(* C7: with no flag supplied and the chain key present, a run without an   *)
(* environment error exits 0, prints only the no-updates line, leaves the  *)
(* document's values as they were and still opens the file for writing and *)
(* writes it.                                                              *)
C7_NoFlagsNoChange ==
  (Finished /\ Accepted /\ fault = "none" /\ args = << >> /\ ChainExisted)
  =>
    /\ exit_code = 0
    /\ out = <<OutNoUpdates>>
    /\ err = << >>
    /\ disk = disk0
    /\ io = <<"exists", "open_r", "open_w", "write">>

\* A run without flags finished on a chain that exists.
C7_Witness ==
  /\ Finished /\ Accepted /\ args = << >> /\ ChainExisted
  /\ exit_code = 0 /\ "write" \in Range(io)

(* C8: the report of a successful run with flags is the header and then    *)
(* one line per supplied flag with the field's name; the line shows the    *)
(* persisted value in full when it has at most 50 characters and its first *)
(* 10 characters, '...', and its last 10 characters otherwise; the         *)
(* persisted value is the full trimmed value.                              *)
C8_ReportAbbreviatesOnlyDisplay ==
  (Success /\ args # << >>) =>
    /\ Len(out) = 1 + Cardinality(DOMAIN args)
    /\ out[1] = OutHeader(chain_key)
    /\ \A f \in DOMAIN args :
         LET p == Fields(disk, chain_key)[HyphenName(f)] IN
           /\ IsTrimOf(p, args[f])
           /\ Cardinality({j \in 2..Len(out) : out[j].key = HyphenName(f)}) = 1
           /\ \A j \in 2..Len(out) :
                out[j].key = HyphenName(f) =>
                  /\ out[j].tag = "field"
                  /\ IF Len(p) > TruncLimit
                     THEN IsAbbrevOf(out[j].text, p)
                     ELSE out[j].text = p

\* One report with an abbreviated value and a value of exactly 50 characters.
C8_Witness ==
  /\ Success
  /\ \E j \in 1..Len(out), f \in DOMAIN args :
       /\ out[j].key = HyphenName(f)
       /\ Len(Fields(disk, chain_key)[HyphenName(f)]) = TruncLimit + EdgeLen
       /\ Len(out[j].text) = 2 * EdgeLen + 3
  /\ \E j \in 1..Len(out), f \in DOMAIN args :
       /\ out[j].key = HyphenName(f)
       /\ Len(args[f]) > TruncLimit
       /\ Len(out[j].text) = TruncLimit

\* The run has everything it needs to succeed.
Healthy ==
  /\ chain_key # ""
  /\ ChainExisted
  /\ args = << >> \/ disk0.doc["deployment"][chain_key].kind = "table"
  /\ fault = "none"

(* C9 as stated: every run ends with status 0 or 1, 0 exactly when the     *)
(* chain key is not empty, the file exists and parses, the chain entry     *)
(* exists and the assignments, the write and the report complete; 1 with a *)
(* message on stderr otherwise; an empty chain key fails before the file   *)
(* is looked up.                                                           *)
C9_ExitZeroOrOne ==
  /\ ~Finished => ENABLED Next
  /\ Finished =>
       /\ exit_code \in {0, 1}
       /\ exit_code = 0 <=> Healthy
       /\ exit_code = 1 => err # << >>
       /\ chain_key = "" => io = << >>

(* C9, amended: every run whose command line argparse accepts ends with    *)
(* status 0 or 1, 0 exactly when the chain key is not empty, the file      *)
(* exists and parses, the chain entry exists and the assignments, the      *)
(* write and the report complete; 1 with a message on stderr otherwise; an *)
(* empty chain key fails with status 1 before the file is looked up.  A    *)
(* command line argparse rejects ends the run with status 2, and --help    *)
(* with status 0, both before the file is looked up.                       *)
C9_ExitStatusOfAcceptedRuns ==
  /\ ~Finished => ENABLED Next
  /\ (Finished /\ Accepted) =>
       /\ exit_code \in {0, 1}
       /\ exit_code = 0 <=> Healthy
       /\ exit_code = 0 => err = << >>
       /\ exit_code = 1 => err # << >>
       /\ chain_key = "" =>
            (exit_code = 1 /\ err = <<ErrEmptyChainKey>> /\ io = << >>)
  /\ (Finished /\ ~Accepted) =>
       /\ io = << >> /\ disk = disk0
       /\ argv.kind = "usage" => (exit_code = 2 /\ err # << >>)
       /\ argv.kind = "help" => exit_code = 0

\* A run ended on the empty chain key while the file exists.
C9_Witness ==
  /\ Finished /\ Accepted /\ chain_key = "" /\ exit_code = 1
  /\ disk0.kind = "toml" /\ args # << >>

(* C10: a flag supplied with an empty or whitespace-only value is applied: *)
(* the run succeeds, the field holds the empty string on disk and the      *)
(* report lists the field instead of the no-updates line.                  *)
C10_BlankValueIsApplied ==
  (/\ Finished /\ Accepted /\ fault = "none" /\ ChainExisted
   /\ disk0.doc["deployment"][chain_key].kind = "table")
  =>
    \A f \in DOMAIN args :
      AllBlank(args[f]) =>
        /\ exit_code = 0
        /\ HyphenName(f) \in DOMAIN Fields(disk, chain_key)
        /\ Fields(disk, chain_key)[HyphenName(f)] = << >>
        /\ \E j \in 1..Len(out) :
             out[j] = OutField(HyphenName(f), << >>)
        /\ \A j \in 1..Len(out) : out[j] # OutNoUpdates

\* The only flag of a run was empty and replaced an existing value.
C10_Witness ==
  /\ Success
  /\ \E f \in DOMAIN args :
       /\ DOMAIN args = {f}
       /\ args[f] = << >>
       /\ HyphenName(f) \in DOMAIN Fields(disk0, chain_key)
       /\ Fields(disk0, chain_key)[HyphenName(f)] # << >>
       /\ Fields(disk, chain_key)[HyphenName(f)] = << >>
====
